---- MODULE Spec2Model ----
(***************************************************************************)
(* State-machine model of OXRS_32.cpp: the schema merge (_mergeJson), the  *)
(* schema mutators, the adoption builders, the MQTT callbacks and the      *)
(* begin/loop/publish operations of class OXRS_32.                         *)
(***************************************************************************)
EXTENDS Integers, Sequences, FiniteSets, TLC

(***************************************************************************)
(* JSON values (ArduinoJson variants).  Every value is a record whose tag  *)
(* is t; each kind keeps its payload in a field of its own name.           *)
(***************************************************************************)
JNull == [t |-> "null"]
JBool(b) == [t |-> "bool", b |-> b]
JNum(n) == [t |-> "num", n |-> n]
JStr(s) == [t |-> "str", s |-> s]
JArr(e) == [t |-> "arr", e |-> e]
JObj(m) == [t |-> "obj", m |-> m]
\* A string given by its characters (formatted text).
JChars(c) == [t |-> "chars", c |-> c]

\* The object with the keys ks, key k holding f[k].
ObjOf(ks, f) == JObj([k \in ks |-> f[k]])
EmptyObj == JObj([k \in {} |-> JNull])
Obj1(k, v) == JObj([x \in {k} |-> v])
Obj2(k1, v1, k2, v2) == JObj([x \in {k1, k2} |-> IF x = k1 THEN v1 ELSE v2])

IsObject(v) == v.t = "obj"
IsNull(v) == v.t = "null"
KeysOf(v) == IF IsObject(v) THEN DOMAIN v.m ELSE {}

\* variant.as<bool>(), which is what `if (dst[key])` evaluates: null is false,
\* a boolean is itself, a number is true when non-zero, and a string, an
\* array or an object is true.
TruthyAllFalse(v) == FALSE
Truthy(v) ==
  CASE v.t = "null" -> FALSE
    [] v.t = "bool" -> v.b
    [] v.t = "num" -> v.n # 0
    [] OTHER -> TRUE

\* dst[key] read: the member, or a null variant when dst is no object or
\* has no such key.
Member(dst, k) == IF k \in KeysOf(dst) THEN dst.m[k] ELSE JNull

\* dst[key] = value: a null dst becomes an object first; a dst that is
\* neither null nor an object cannot take a member and is left as it is.
SetMember(dst, k, v) ==
  CASE IsNull(dst) -> Obj1(k, v)
    [] IsObject(dst) ->
         JObj([x \in DOMAIN dst.m \cup {k} |-> IF x = k THEN v ELSE dst.m[x]])
    [] OTHER -> dst

\* A write through the handle dst[key] of an existing member; a handle to a
\* member that does not exist is unbound and writes nothing.
UpdateMember(dst, k, v) ==
  IF k \in KeysOf(dst) THEN [dst EXCEPT !.m[k] = v] ELSE dst

\* dst.set(src): dst holds a copy of src.
SetValueAppend(dst, src) ==
  IF dst.t = "arr" /\ src.t = "arr" THEN JArr(dst.e \o src.e) ELSE src
SetValue(dst, src) == src

\* _mergeJson(dst, src): the value dst holds after the call.  MergeKeys is
\* the loop over the pairs of src that are still to be visited.
RECURSIVE _mergeJson(_, _)
RECURSIVE MergeKeys(_, _, _)
MergeKeys(dst, src, ks) ==
  IF ks = {} THEN dst
  ELSE LET k == CHOOSE x \in ks : TRUE
           d == IF Truthy(Member(dst, k))
                THEN UpdateMember(dst, k, _mergeJson(Member(dst, k), src.m[k]))
                ELSE SetMember(dst, k, src.m[k])
       IN MergeKeys(d, src, ks \ {k})

_mergeJson(dst, src) ==
  IF IsObject(src) THEN MergeKeys(dst, src, DOMAIN src.m) ELSE SetValue(dst, src)

(***************************************************************************)
(* The JSON values the model draws its inputs from.                        *)
(***************************************************************************)
\* Numbers run from 0 to MaxNum.
MaxNum == 2
Numbers == {JNum(n) : n \in 0..MaxNum}
Scalars == {JNull, JBool(FALSE), JBool(TRUE), JStr(""), JStr("s")} \cup Numbers
Arrays == {JArr(<<>>), JArr(<<JNum(1)>>)}
Leaves == Scalars \cup Arrays

\* Objects over the keys ks with values in vs (every subset of ks).
ObjectsOver(ks, vs) ==
  UNION {{JObj(f) : f \in [s -> vs]} : s \in SUBSET ks}

InnerValues == {JNull, Obj1("z", JNum(1))} \cup Numbers
InnerObjects == ObjectsOver({"x", "y"}, InnerValues)
SideValues == {JNum(1), Obj1("y", JNum(2))}

\* Documents: key "a" holds any leaf or inner object, key "b" a side value.
Documents ==
  UNION {{JObj(f) : f \in {g \in [s -> Leaves \cup InnerObjects \cup SideValues] :
                            "b" \in s => g["b"] \in SideValues}}
         : s \in SUBSET {"a", "b"}}

MergeTargets == {JNull} \cup Documents
MergeFragments == Leaves \cup Documents

VARIABLES
  mT, mF, mR1, mR2, mStage,  \* the merge on its own: target, fragment, results
  phase,             \* "setup" before begin, "running" after it, "halted" after ESP.restart()
  netUp,             \* WiFi.status() == WL_CONNECTED
  mac,               \* the hardware address WiFi.macAddress() returns
  persistedId,       \* the client id of the persisted MQTT configuration (<<>>: none)
  fwConfigSchema,    \* _fwConfigSchema
  fwCommandSchema,   \* _fwCommandSchema
  onConfig,          \* _onConfig is set
  onCommand,         \* _onCommand is set
  mqttClientId,      \* the session's client id
  mqttHandlers,      \* the callbacks registered with the session and the client
  apiOnAdopt,        \* _apiAdopt is registered with the REST API
  conn,              \* the session: "Disconnected" or "Connected"
  loggerTopic,       \* the topic the logger publishes to
  lastOp,            \* the most recent operation
  trace,             \* what the most recent operation did, in order
  lastConfigFragment,   \* the argument of the latest setConfigSchema, and whether
                        \* the document held keys that argument lacks
  lastCommandFragment,  \* the same for setCommandSchema
  idSetAfterBegin,   \* setMqttClientId was called since begin returned
  connectTried,      \* a connect attempt was made since the device started
  mqttBroker,        \* the session's broker and port ("": not set)
  mqttAuth,          \* the session's credentials ("": not set)
  mqttTopicPrefix,   \* the session's topic prefix ("": not set)
  mqttTopicSuffix,   \* the session's topic suffix ("": not set)
  persistedFields,   \* the other session fields the persisted configuration holds
  preBegin           \* the session fields as they were when begin was called

mergeVars == <<mT, mF, mR1, mR2, mStage>>
envVars == <<netUp, mac, persistedId, persistedFields>>
schemaVars == <<fwConfigSchema, fwCommandSchema, lastConfigFragment, lastCommandFragment>>
handlerVars == <<onConfig, onCommand, mqttHandlers, apiOnAdopt>>
fieldVars == <<mqttBroker, mqttAuth, mqttTopicPrefix, mqttTopicSuffix>>
sessionVars == <<mqttClientId, conn, loggerTopic, idSetAfterBegin, connectTried, fieldVars>>
opVars == <<phase, lastOp, trace>>
sysVars == <<envVars, schemaVars, handlerVars, sessionVars, opVars, preBegin>>
vars == <<mergeVars, sysVars>>


(***************************************************************************)
(* Identity and the inputs of the operations.                              *)
(***************************************************************************)
HexDigits ==
  <<"0", "1", "2", "3", "4", "5", "6", "7", "8", "9", "a", "b", "c", "d", "e", "f">>

\* "%02x" of one byte.
Hex2(b) == <<HexDigits[(b \div 16) + 1], HexDigits[(b % 16) + 1]>>

\* sprintf_P(clientId, "%02x%02x%02x", mac[3], mac[4], mac[5])
DefaultClientId(m) == Hex2(m[4]) \o Hex2(m[5]) \o Hex2(m[6])

Macs == {<<164, 207, 18, 11, 193, 255>>, <<0, 0, 0, 0, 10, 7>>}
ClientIds == {<<>>, <<"f", "w">>}
PersistedIds == {<<>>, <<"c", "f", "g">>}

\* The fragments firmware hands to setConfigSchema and setCommandSchema.
SchemaFragments ==
  { JNull, JStr("s"), JArr(<<JNum(1)>>), JNum(0), EmptyObj,
    Obj1("a", Obj1("x", JNum(1))),
    Obj1("a", Obj1("y", JNum(2))),
    Obj1("b", JNum(2)),
    Obj2("b", JNum(0), "restart", JBool(TRUE)),
    Obj1("restart", Obj2("title", JStr("Mine"), "type", JStr("string"))) }

\* Inbound messages: a topic namespace and a raw payload, which is empty,
\* not JSON, or the text of a JSON value.
Topics == {"conf", "cmnd", "other"}
PayloadJsons ==
  { Obj1("restart", JBool(TRUE)),
    Obj2("restart", JBool(FALSE), "dim", JNum(50)),
    Obj2("restart", JBool(TRUE), "dim", JNum(50)),
    Obj1("dim", JNum(50)),
    JArr(<<JNum(1)>>) }
Payloads ==
  {[raw |-> "empty"], [raw |-> "garbage"]}
    \cup {[raw |-> "json", json |-> j] : j \in PayloadJsons}
Messages == {[topic |-> t, payload |-> q] : t \in Topics, q \in Payloads}

ConnectFailStates ==
  { "MQTT_CONNECTION_TIMEOUT", "MQTT_CONNECT_FAILED", "MQTT_CONNECT_BAD_PROTOCOL",
    "MQTT_CONNECT_BAD_CLIENT_ID", "MQTT_CONNECT_UNAVAILABLE",
    "MQTT_CONNECT_BAD_CREDENTIALS", "MQTT_CONNECT_UNAUTHORIZED" }
LostStates == {"MQTT_CONNECTION_LOST", "MQTT_DISCONNECTED"}

\* What one pump of the session meets.
PumpInputs ==
  {[k |-> "connectOk"], [k |-> "idle"]}
    \cup {[k |-> "connectFail", state |-> x] : x \in ConnectFailStates}
    \cup {[k |-> "lost", state |-> x] : x \in LostStates}
    \cup {[k |-> "message", msg |-> x] : x \in Messages}

\* What a write through a stale object handle leaves behind.
StaleWrites == {"kept", "clobbered"}
ApiRequests == {"none", "adopt", "other"}
StatusJsons == {Obj1("dim", JNum(50))}
\* What the firmware's handler does when it is called: nothing, or a call of
\* publishStatus or publishTelemetry, with the result of the session's publish.
NoAct == [k |-> "nothing"]
HandlerActs ==
  {NoAct} \cup {[k |-> x, ok |-> b] : x \in {"publishStatus", "publishTelemetry"},
                                       b \in BOOLEAN}

Log(line) == [ev |-> "log", line |-> line]

(***************************************************************************)
(* Adoption info builders.                                                 *)
(***************************************************************************)
\* _getFirmwareJson: the "firmware" section.
_getFirmwareJson ==
  JObj([k \in {"name", "shortName", "maker", "version"} |->
          CASE k = "name" -> JStr("FW_NAME")
            [] k = "shortName" -> JStr("FW_SHORT_NAME")
            [] k = "maker" -> JStr("FW_MAKER")
            [] OTHER -> JStr("FW_VERSION")])

\* _getSystemJson: the "system" section, the runtime's counters.
_getSystemJson ==
  JObj([k \in {"heapUsedBytes", "heapFreeBytes", "heapMaxAllocBytes",
               "flashChipSizeBytes", "sketchSpaceUsedBytes", "sketchSpaceTotalBytes",
               "fileSystemUsedBytes", "fileSystemTotalBytes"} |-> JStr("counter")])

\* "%02X:%02X:%02X:%02X:%02X:%02X" of the hardware address.
HexDigitsUpper ==
  <<"0", "1", "2", "3", "4", "5", "6", "7", "8", "9", "A", "B", "C", "D", "E", "F">>
Hex2Upper(b) == <<HexDigitsUpper[(b \div 16) + 1], HexDigitsUpper[(b % 16) + 1]>>
MacDisplay(m) ==
  Hex2Upper(m[1]) \o <<":">> \o Hex2Upper(m[2]) \o <<":">> \o Hex2Upper(m[3]) \o <<":">>
    \o Hex2Upper(m[4]) \o <<":">> \o Hex2Upper(m[5]) \o <<":">> \o Hex2Upper(m[6])

\* _getNetworkJson: the "network" section.
_getNetworkJson ==
  JObj([k \in {"mode", "ip", "mac"} |->
          CASE k = "mode" -> JStr("wifi")
            [] k = "ip" -> JStr("localIP")
            [] OTHER -> JChars(MacDisplay(mac))])

\* The envelope both schema builders write around properties.
SchemaEnvelope(properties) ==
  JObj([k \in {"$schema", "title", "type", "properties"} |->
          CASE k = "$schema" -> JStr("JSON_SCHEMA_VERSION")
            [] k = "title" -> JStr("FW_SHORT_NAME")
            [] k = "type" -> JStr("object")
            [] OTHER -> properties])

\* _getConfigSchemaJson: the "configSchema" section.
_getConfigSchemaJson ==
  SchemaEnvelope(IF ~IsNull(fwConfigSchema)
                 THEN _mergeJson(EmptyObj, fwConfigSchema)
                 ELSE EmptyObj)

\* The built-in entry of the command schema.
RestartSchema == Obj2("title", JStr("Restart"), "type", JStr("boolean"))

\* properties.createNestedObject("restart") and the two writes to it, through
\* the JsonObject handle taken when properties was created.  While properties
\* is an object the member is created, or replaced by a new object.  Once
\* _mergeJson has set properties to a non-object the handle is stale: what the
\* writes leave is not defined, and is either the value as it was or a
\* clobbered one (an array takes the entry as an element).
CreateRestartNoReplace(properties, stale) ==
  IF "restart" \in KeysOf(properties) THEN properties
  ELSE SetMember(IF IsObject(properties) THEN properties ELSE EmptyObj,
                 "restart", RestartSchema)
CreateRestart(properties, stale) ==
  CASE IsObject(properties) -> SetMember(properties, "restart", RestartSchema)
    [] stale = "kept" -> properties
    [] properties.t = "arr" -> JArr(Append(properties.e, RestartSchema))
    [] OTHER -> [t |-> "clobbered"]

\* _getCommandSchemaJson: the "commandSchema" section.
_getCommandSchemaJson(stale) ==
  SchemaEnvelope(CreateRestart(IF ~IsNull(fwCommandSchema)
                               THEN _mergeJson(EmptyObj, fwCommandSchema)
                               ELSE EmptyObj,
                               stale))

\* _apiAdopt: the adoption document.
_apiAdopt(stale) ==
  JObj([k \in {"firmware", "system", "network", "configSchema", "commandSchema"} |->
          CASE k = "firmware" -> _getFirmwareJson
            [] k = "system" -> _getSystemJson
            [] k = "network" -> _getNetworkJson
            [] k = "configSchema" -> _getConfigSchemaJson
            [] OTHER -> _getCommandSchemaJson(stale)])

(***************************************************************************)
(* MQTT callbacks.  Each gives the events it produces, in order, and       *)
(* whether the device was reset while it ran.                              *)
(***************************************************************************)
\* _mqttConnected with the adoption document published before the logger is
\* rebound.
_mqttConnectedPublishFirst(stale) ==
  << [ev |-> "publishAdopt", doc |-> _apiAdopt(stale)],
     [ev |-> "setTopic", topic |-> "logTopic"],
     Log("[gp32] mqtt connected") >>
\* _mqttConnected: rebind the logger, publish the adoption document, log.
_mqttConnected(stale) ==
  << [ev |-> "setTopic", topic |-> "logTopic"],
     [ev |-> "publishAdopt", doc |-> _apiAdopt(stale)],
     Log("[gp32] mqtt connected") >>

\* _mqttDisconnected: the line logged for a disconnect reason.
_mqttDisconnected(state) ==
  CASE state = "MQTT_CONNECTION_TIMEOUT" -> <<Log("[gp32] mqtt connection timeout")>>
    [] state = "MQTT_CONNECTION_LOST" -> <<Log("[gp32] mqtt connection lost")>>
    [] state = "MQTT_CONNECT_FAILED" -> <<Log("[gp32] mqtt connect failed")>>
    [] state = "MQTT_DISCONNECTED" -> <<Log("[gp32] mqtt disconnected")>>
    [] state = "MQTT_CONNECT_BAD_PROTOCOL" -> <<Log("[gp32] mqtt bad protocol")>>
    [] state = "MQTT_CONNECT_BAD_CLIENT_ID" -> <<Log("[gp32] mqtt bad client id")>>
    [] state = "MQTT_CONNECT_UNAVAILABLE" -> <<Log("[gp32] mqtt unavailable")>>
    [] state = "MQTT_CONNECT_BAD_CREDENTIALS" -> <<Log("[gp32] mqtt bad credentials")>>
    [] state = "MQTT_CONNECT_UNAUTHORIZED" -> <<Log("[gp32] mqtt unauthorised")>>
    [] OTHER -> <<>>

\* _mqttConfig with the restart command acted on as _mqttCommand does.
_mqttConfigIntercepting(json) ==
  IF "restart" \in KeysOf(json) /\ Truthy(json.m["restart"])
  THEN [ events |-> <<[ev |-> "mqttConfig", json |-> json], [ev |-> "restart"]>>,
         halted |-> TRUE ]
  ELSE [ events |-> <<[ev |-> "mqttConfig", json |-> json]>>
                     \o (IF onConfig THEN <<[ev |-> "onConfig", json |-> json]>>
                         ELSE <<>>),
         halted |-> FALSE ]
\* _mqttConfig: pass the payload on to the firmware callback, if any.
_mqttConfig(json) ==
  [ events |-> <<[ev |-> "mqttConfig", json |-> json]>>
                 \o (IF onConfig THEN <<[ev |-> "onConfig", json |-> json]>> ELSE <<>>),
    halted |-> FALSE ]

\* json.containsKey("restart") && json["restart"].as<bool>()
RestartRequested(json) == "restart" \in KeysOf(json) /\ Truthy(json.m["restart"])

\* Forwarding a remainder of the payload instead of the payload.
WithoutRestart(json) ==
  IF IsObject(json) THEN JObj([k \in DOMAIN json.m \ {"restart"} |-> json.m[k]]) ELSE json
ForwardedStripped(json) == WithoutRestart(json)
\* The argument _mqttCommand hands to _onCommand: the payload it was given.
Forwarded(json) == json

\* ESP.restart() after the firmware callback instead of before it.
RestartLast(json) ==
  [ events |-> <<[ev |-> "mqttCommand", json |-> json]>>
                 \o (IF onCommand THEN <<[ev |-> "onCommand", json |-> Forwarded(json)]>>
                     ELSE <<>>)
                 \o (IF RestartRequested(json) THEN <<[ev |-> "restart"]>> ELSE <<>>),
    halted |-> RestartRequested(json) ]
\* _mqttCommand: ESP.restart(), which does not return, when the payload asks
\* for it; otherwise pass the payload on to the firmware callback, if any.
_mqttCommand(json) ==
  IF RestartRequested(json)
  THEN [ events |-> <<[ev |-> "mqttCommand", json |-> json], [ev |-> "restart"]>>,
         halted |-> TRUE ]
  ELSE [ events |-> <<[ev |-> "mqttCommand", json |-> json]>>
                      \o (IF onCommand
                          THEN <<[ev |-> "onCommand", json |-> Forwarded(json)]>>
                          ELSE <<>>),
         halted |-> FALSE ]

\* The session's receive(topic, payload, length): a zero-length payload is
\* rejected first, then one that is not JSON; a message of the configuration
\* or command namespace goes to the callback registered with the session, and
\* is reported when none is registered.
Receive(msg) ==
  CASE msg.payload.raw = "empty" ->
         [state |-> "MQTT_RECEIVE_ZERO_LENGTH", events |-> <<>>, halted |-> FALSE]
    [] msg.payload.raw = "garbage" ->
         [state |-> "MQTT_RECEIVE_JSON_ERROR", events |-> <<>>, halted |-> FALSE]
    [] msg.topic = "conf" ->
         IF mqttHandlers.onConfig
         THEN [state |-> "MQTT_RECEIVE_OK"] @@ _mqttConfig(msg.payload.json)
         ELSE [state |-> "MQTT_RECEIVE_NO_CONFIG_HANDLER", events |-> <<>>, halted |-> FALSE]
    [] msg.topic = "cmnd" ->
         IF mqttHandlers.onCommand
         THEN [state |-> "MQTT_RECEIVE_OK"] @@ _mqttCommand(msg.payload.json)
         ELSE [state |-> "MQTT_RECEIVE_NO_COMMAND_HANDLER", events |-> <<>>, halted |-> FALSE]
    [] OTHER -> [state |-> "MQTT_RECEIVE_OK", events |-> <<>>, halted |-> FALSE]

\* The switch of _mqttCallback with two of its lines exchanged.
ReceiveLogSwapped(state) ==
  CASE state = "MQTT_RECEIVE_ZERO_LENGTH" ->
         <<Log("[gp32] failed to deserialise mqtt json payload")>>
    [] state = "MQTT_RECEIVE_JSON_ERROR" -> <<Log("[gp32] empty mqtt payload received")>>
    [] state = "MQTT_RECEIVE_NO_CONFIG_HANDLER" -> <<Log("[gp32] no mqtt config handler")>>
    [] state = "MQTT_RECEIVE_NO_COMMAND_HANDLER" -> <<Log("[gp32] no mqtt command handler")>>
    [] OTHER -> <<>>
\* The switch of _mqttCallback: the line logged for a receive state.
ReceiveLog(state) ==
  CASE state = "MQTT_RECEIVE_ZERO_LENGTH" -> <<Log("[gp32] empty mqtt payload received")>>
    [] state = "MQTT_RECEIVE_JSON_ERROR" ->
         <<Log("[gp32] failed to deserialise mqtt json payload")>>
    [] state = "MQTT_RECEIVE_NO_CONFIG_HANDLER" -> <<Log("[gp32] no mqtt config handler")>>
    [] state = "MQTT_RECEIVE_NO_COMMAND_HANDLER" -> <<Log("[gp32] no mqtt command handler")>>
    [] OTHER -> <<>>

\* _mqttCallback: hand the message to the session and log what it reports.
\* A reset inside the session's receive ends the callback there.
_mqttCallback(msg) ==
  LET r == Receive(msg)
  IN [ events |-> <<[ev |-> "message", msg |-> msg]>> \o r.events
                    \o (IF r.halted THEN <<>>
                        ELSE <<[ev |-> "received", state |-> r.state]>>
                               \o ReceiveLog(r.state)),
       halted |-> r.halted ]

(***************************************************************************)
(* The program.                                                            *)
(***************************************************************************)
NoHandlers ==
  [onConnected |-> FALSE, onDisconnected |-> FALSE, onConfig |-> FALSE,
   onCommand |-> FALSE, callback |-> FALSE]
AllHandlers ==
  [onConnected |-> TRUE, onDisconnected |-> TRUE, onConfig |-> TRUE,
   onCommand |-> TRUE, callback |-> TRUE]
NoFragment == [set |-> FALSE, f |-> JNull, dropped |-> FALSE]
NoPreBegin ==
  [called |-> FALSE, clientId |-> <<>>, broker |-> "", auth |-> "", prefix |-> "",
   suffix |-> ""]

\* The globals as their constructors leave them.
Boot ==
  /\ phase = "setup"
  /\ netUp = FALSE
  /\ fwConfigSchema = JNull
  /\ fwCommandSchema = JNull
  /\ onConfig = FALSE
  /\ onCommand = FALSE
  /\ mqttClientId = <<>>
  /\ mqttHandlers = NoHandlers
  /\ apiOnAdopt = FALSE
  /\ conn = "Disconnected"
  /\ loggerTopic = "log"
  /\ lastOp = "none"
  /\ trace = <<>>
  /\ lastConfigFragment = NoFragment
  /\ lastCommandFragment = NoFragment
  /\ idSetAfterBegin = FALSE
  /\ connectTried = FALSE
  /\ mqttBroker = ""
  /\ mqttAuth = ""
  /\ mqttTopicPrefix = ""
  /\ mqttTopicSuffix = ""
  /\ preBegin = NoPreBegin

MergeIdle ==
  /\ mT = JNull
  /\ mF = JNull
  /\ mR1 = JNull
  /\ mR2 = JNull
  /\ mStage = "off"

Init ==
  /\ mac \in Macs
  /\ persistedId \in PersistedIds
  /\ persistedFields = {}
  /\ Boot
  /\ MergeIdle

\* _isNetworkConnected
_isNetworkConnectedAlways == TRUE
_isNetworkConnected == netUp

\* setConfigSchema without the clear().
SetSchemaNoClear(doc, json) == _mergeJson(doc, json)
\* setConfigSchema / setCommandSchema: clear the document, then merge.
SetSchema(doc, json) == _mergeJson(JNull, json)

setConfigSchema(json) ==
  /\ phase \in {"setup", "running"}
  /\ fwConfigSchema' = SetSchema(fwConfigSchema, json)
  /\ lastConfigFragment' = [set |-> TRUE, f |-> json,
                             dropped |-> KeysOf(fwConfigSchema) \ KeysOf(json) # {}]
  /\ lastOp' = "setConfigSchema"
  /\ trace' = <<>>
  /\ UNCHANGED <<mergeVars, preBegin, envVars, fwCommandSchema, lastCommandFragment,
                 handlerVars, sessionVars, phase>>

setCommandSchema(json) ==
  /\ phase \in {"setup", "running"}
  /\ fwCommandSchema' = SetSchema(fwCommandSchema, json)
  /\ lastCommandFragment' = [set |-> TRUE, f |-> json,
                              dropped |-> KeysOf(fwCommandSchema) \ KeysOf(json) # {}]
  /\ lastOp' = "setCommandSchema"
  /\ trace' = <<>>
  /\ UNCHANGED <<mergeVars, preBegin, envVars, fwConfigSchema, lastConfigFragment,
                 handlerVars, sessionVars, phase>>

setMqttClientId(clientId) ==
  /\ phase \in {"setup", "running"}
  /\ mqttClientId' = clientId
  /\ idSetAfterBegin' = (phase = "running")
  /\ lastOp' = "setMqttClientId"
  /\ trace' = <<[ev |-> "setClientId", id |-> clientId, by |-> "firmware"]>>
  /\ UNCHANGED <<mergeVars, preBegin, envVars, schemaVars, handlerVars, conn, loggerTopic,
                 connectTried, fieldVars, phase>>

setMqttBroker(broker) ==
  /\ phase \in {"setup", "running"}
  /\ mqttBroker' = broker
  /\ lastOp' = "setMqttBroker"
  /\ trace' = <<[ev |-> "setBroker", val |-> broker, by |-> "firmware"]>>
  /\ UNCHANGED <<mergeVars, preBegin, envVars, schemaVars, handlerVars, mqttClientId,
                 conn, loggerTopic, idSetAfterBegin, connectTried, mqttAuth,
                 mqttTopicPrefix, mqttTopicSuffix, phase>>

setMqttAuth(auth) ==
  /\ phase \in {"setup", "running"}
  /\ mqttAuth' = auth
  /\ lastOp' = "setMqttAuth"
  /\ trace' = <<[ev |-> "setAuth", val |-> auth, by |-> "firmware"]>>
  /\ UNCHANGED <<mergeVars, preBegin, envVars, schemaVars, handlerVars, mqttClientId,
                 conn, loggerTopic, idSetAfterBegin, connectTried, mqttBroker,
                 mqttTopicPrefix, mqttTopicSuffix, phase>>

setMqttTopicPrefix(prefix) ==
  /\ phase \in {"setup", "running"}
  /\ mqttTopicPrefix' = prefix
  /\ lastOp' = "setMqttTopicPrefix"
  /\ trace' = <<[ev |-> "setTopicPrefix", val |-> prefix, by |-> "firmware"]>>
  /\ UNCHANGED <<mergeVars, preBegin, envVars, schemaVars, handlerVars, mqttClientId,
                 conn, loggerTopic, idSetAfterBegin, connectTried, mqttBroker,
                 mqttAuth, mqttTopicSuffix, phase>>

setMqttTopicSuffix(suffix) ==
  /\ phase \in {"setup", "running"}
  /\ mqttTopicSuffix' = suffix
  /\ lastOp' = "setMqttTopicSuffix"
  /\ trace' = <<[ev |-> "setTopicSuffix", val |-> suffix, by |-> "firmware"]>>
  /\ UNCHANGED <<mergeVars, preBegin, envVars, schemaVars, handlerVars, mqttClientId,
                 conn, loggerTopic, idSetAfterBegin, connectTried, mqttBroker,
                 mqttAuth, mqttTopicPrefix, phase>>

\* The session and surface settings begin works on.
\* _initialiseNetwork: read the hardware address, join the network.
_initialiseNetwork(st, wifi) ==
  [st EXCEPT !.events = @ \o << [ev |-> "macAddress"],
                                Log("[gp32] wifi mac address: "),
                                [ev |-> "autoConnect", ok |-> wifi],
                                Log("[gp32] ip address: ") >>]

\* _initialiseMqtt: the default client id, then the callbacks.
_initialiseMqtt(st) ==
  [st EXCEPT !.clientId = DefaultClientId(mac),
             !.handlers = AllHandlers,
             !.events = @ \o << [ev |-> "setClientId", id |-> DefaultClientId(mac),
                                 by |-> "default"],
                                [ev |-> "registerCallbacks"] >>]

\* _api.begin(): the management surface loads the persisted configuration,
\* which sets the session fields it holds.
ApiBegin(st) ==
  [st EXCEPT !.clientId = IF persistedId # <<>> THEN persistedId ELSE @,
             !.broker = IF "broker" \in persistedFields THEN "file" ELSE @,
             !.auth = IF "auth" \in persistedFields THEN "file" ELSE @,
             !.prefix = IF "prefix" \in persistedFields THEN "file" ELSE @,
             !.suffix = IF "suffix" \in persistedFields THEN "file" ELSE @,
             !.events = @ \o <<[ev |-> "loadPersisted"]>>
                          \o (IF persistedId # <<>>
                              THEN <<[ev |-> "setClientId", id |-> persistedId,
                                      by |-> "persisted"]>>
                              ELSE <<>>)]

\* _initialiseRestApi: start the surface, register _apiAdopt, listen.
_initialiseRestApi(st) ==
  [ApiBegin(st) EXCEPT !.onAdopt = TRUE,
                       !.events = @ \o <<[ev |-> "onAdopt"], [ev |-> "serverBegin"]>>]

\* begin with the REST API set up before MQTT.
BeginOrderSwapped(st, wifi) ==
  _initialiseMqtt(_initialiseRestApi(_initialiseNetwork(st, wifi)))
\* The three initialisations of begin, in its order.
BeginOrder(st, wifi) ==
  _initialiseRestApi(_initialiseMqtt(_initialiseNetwork(st, wifi)))

\* The session fields as begin finds them.
SessionFields ==
  [called |-> TRUE, clientId |-> mqttClientId, broker |-> mqttBroker, auth |-> mqttAuth,
   prefix |-> mqttTopicPrefix, suffix |-> mqttTopicSuffix]

\* begin; what preBegin records of the call is left to the specification.
begin(config, command, wifi) ==
  /\ phase = "setup"
  /\ LET st0 == [ clientId |-> mqttClientId, broker |-> mqttBroker, auth |-> mqttAuth,
                  prefix |-> mqttTopicPrefix, suffix |-> mqttTopicSuffix,
                  handlers |-> mqttHandlers, onAdopt |-> apiOnAdopt,
                  events |-> <<Log("[gp32] firmware")>> ]
         st == BeginOrder(st0, wifi)
     IN /\ mqttClientId' = st.clientId
        /\ mqttBroker' = st.broker
        /\ mqttAuth' = st.auth
        /\ mqttTopicPrefix' = st.prefix
        /\ mqttTopicSuffix' = st.suffix
        /\ mqttHandlers' = st.handlers
        /\ apiOnAdopt' = st.onAdopt
        /\ trace' = st.events
  /\ onConfig' = config
  /\ onCommand' = command
  /\ netUp' = wifi
  /\ phase' = "running"
  /\ lastOp' = "begin"
  /\ idSetAfterBegin' = FALSE
  /\ UNCHANGED <<mergeVars, mac, persistedId, persistedFields, schemaVars, conn,
                 loggerTopic, connectTried>>

\* One pump of the session, _mqtt.loop(): a disconnected session makes a
\* connect attempt with the client id it holds and fires the connected or the
\* disconnected callback; a connected one delivers a message to the client's
\* callback, or finds the connection lost, or has nothing to do.
ConnectAttempt ==
  [ev |-> "connect", id |-> mqttClientId, first |-> ~connectTried,
   fwSet |-> idSetAfterBegin, broker |-> mqttBroker, auth |-> mqttAuth,
   prefix |-> mqttTopicPrefix, suffix |-> mqttTopicSuffix]

MqttLoop(io, stale) ==
  CASE io.k = "connectOk" ->
         [ events |-> <<ConnectAttempt>>
                        \o (IF mqttHandlers.onConnected THEN _mqttConnected(stale)
                            ELSE <<>>),
           halted |-> FALSE, conn |-> "Connected" ]
    [] io.k = "connectFail" ->
         [ events |-> <<ConnectAttempt>>
                        \o (IF mqttHandlers.onDisconnected
                            THEN _mqttDisconnected(io.state) ELSE <<>>),
           halted |-> FALSE, conn |-> "Disconnected" ]
    [] io.k = "lost" ->
         [ events |-> IF mqttHandlers.onDisconnected
                      THEN _mqttDisconnected(io.state) ELSE <<>>,
           halted |-> FALSE, conn |-> "Disconnected" ]
    [] io.k = "message" /\ mqttHandlers.callback ->
         [conn |-> "Connected"] @@ _mqttCallback(io.msg)
    [] OTHER -> [events |-> <<>>, halted |-> FALSE, conn |-> conn]

\* _server.available() and _api.loop(&client): at most one request is served;
\* a request for the adoption document calls _apiAdopt.
ApiLoop(req, stale) ==
  <<[ev |-> "serverAvailable"], [ev |-> "apiLoop", req |-> req]>>
    \o (IF req = "adopt" /\ apiOnAdopt
        THEN <<[ev |-> "apiAdopt", doc |-> _apiAdopt(stale)]>>
        ELSE <<>>)

\* The body of loop with the surface served before the session.
LoopBodySurfaceFirst(io, stale, req) ==
  LET m == MqttLoop(io, stale)
  IN [ events |-> ApiLoop(req, stale) \o <<[ev |-> "mqttLoop"]>> \o m.events,
       halted |-> m.halted, conn |-> m.conn ]
\* The body of loop while the link is up: the session, then the surface.
LoopBody(io, stale, req) ==
  LET m == MqttLoop(io, stale)
  IN [ events |-> <<[ev |-> "mqttLoop"]>> \o m.events
                    \o (IF m.halted THEN <<>> ELSE ApiLoop(req, stale)),
       halted |-> m.halted, conn |-> m.conn ]

\* publishStatus / publishTelemetry with no look at the link.
PublishUnchecked(kind, json, ok) ==
  << [ev |-> "mqttPublish", kind |-> kind, json |-> json, ok |-> ok],
     [ev |-> "return", val |-> ok] >>
\* publishStatus / publishTelemetry: nothing but a false result while the
\* link is down; otherwise the session's publish and its result.  The session's
\* publish (ok) can succeed only while the session is connected.
Publish(kind, json, ok) ==
  LET up == _isNetworkConnected
  IN <<[ev |-> "isNetworkConnected", val |-> up]>>
       \o (IF ~up THEN <<[ev |-> "return", val |-> FALSE]>>
           ELSE << [ev |-> "mqttPublish", kind |-> kind, json |-> json, ok |-> ok],
                   [ev |-> "return", val |-> ok] >>)

\* The firmware's handler: the calls it makes.
FirmwareHandler(fw) ==
  CASE fw.k = "publishStatus" -> Publish("stat", CHOOSE j \in StatusJsons : TRUE, fw.ok)
    [] fw.k = "publishTelemetry" -> Publish("tele", CHOOSE j \in StatusJsons : TRUE, fw.ok)
    [] OTHER -> <<>>

\* The events of a callback with what the handler does put after each call of
\* the firmware's handler.
RECURSIVE WithHandler(_, _)
WithHandler(events, handlerEvents) ==
  IF events = <<>> THEN <<>>
  ELSE LET e == Head(events)
       IN <<e>> \o (IF e.ev \in {"onConfig", "onCommand"} THEN handlerEvents ELSE <<>>)
              \o WithHandler(Tail(events), handlerEvents)

\* loop: one cycle.  The link may go down (drop) after loop has read its
\* status; a handler the cycle calls does what fw says, in the state the drop
\* has left.
LoopGateOpen(up) == TRUE
\* The condition of loop's if: the link status it has read.
LoopGate(up) == up

loop(io, stale, req, fw, drop) ==
  /\ phase = "running"
  /\ IF conn = "Disconnected" THEN io.k \in {"connectOk", "connectFail"}
     ELSE io.k \in {"idle", "lost", "message"}
  /\ drop => netUp
  /\ fw # NoAct => io.k = "message"
  /\ netUp' = (netUp /\ ~drop)
  /\ LET up == _isNetworkConnected
         r == IF LoopGate(up) THEN LoopBody(io, stale, req)
              ELSE [events |-> <<>>, halted |-> FALSE, conn |-> conn]
         attempt == up /\ io.k \in {"connectOk", "connectFail"}
     IN /\ trace' = <<[ev |-> "isNetworkConnected", val |-> up]>>
                       \o WithHandler(r.events, FirmwareHandler(fw)')
        /\ conn' = r.conn
        /\ phase' = IF r.halted THEN "halted" ELSE phase
        /\ loggerTopic' = IF up /\ io.k = "connectOk" /\ mqttHandlers.onConnected
                          THEN "logTopic" ELSE loggerTopic
        /\ connectTried' = (connectTried \/ attempt)
  /\ lastOp' = "loop"
  /\ UNCHANGED <<mergeVars, preBegin, mac, persistedId, persistedFields, schemaVars,
                 handlerVars, mqttClientId, idSetAfterBegin, fieldVars>>

publishStatus(json, ok) ==
  /\ phase \in {"setup", "running"}
  /\ ok => conn = "Connected"
  /\ trace' = Publish("stat", json, ok)
  /\ lastOp' = "publishStatus"
  /\ UNCHANGED <<mergeVars, preBegin, envVars, schemaVars, handlerVars, sessionVars, phase>>

publishTelemetry(json, ok) ==
  /\ phase \in {"setup", "running"}
  /\ ok => conn = "Connected"
  /\ trace' = Publish("tele", json, ok)
  /\ lastOp' = "publishTelemetry"
  /\ UNCHANGED <<mergeVars, preBegin, envVars, schemaVars, handlerVars, sessionVars, phase>>

\* The network link comes up or goes down.
LinkChange ==
  /\ phase = "running"
  /\ netUp' = ~netUp
  /\ lastOp' = "linkChange"
  /\ trace' = <<>>
  /\ UNCHANGED <<mergeVars, preBegin, mac, persistedId, persistedFields, schemaVars,
                 handlerVars, sessionVars, phase>>

\* The device starts again after ESP.restart(): the globals are constructed
\* anew; the hardware address and the persisted configuration stay.
Reboot ==
  /\ phase = "halted"
  /\ phase' = "setup"
  /\ netUp' = FALSE
  /\ fwConfigSchema' = JNull
  /\ fwCommandSchema' = JNull
  /\ onConfig' = FALSE
  /\ onCommand' = FALSE
  /\ mqttClientId' = <<>>
  /\ mqttHandlers' = NoHandlers
  /\ apiOnAdopt' = FALSE
  /\ conn' = "Disconnected"
  /\ loggerTopic' = "log"
  /\ lastOp' = "none"
  /\ trace' = <<>>
  /\ lastConfigFragment' = NoFragment
  /\ lastCommandFragment' = NoFragment
  /\ idSetAfterBegin' = FALSE
  /\ connectTried' = FALSE
  /\ mqttBroker' = ""
  /\ mqttAuth' = ""
  /\ mqttTopicPrefix' = ""
  /\ mqttTopicSuffix' = ""
  /\ UNCHANGED <<mergeVars, preBegin, mac, persistedId, persistedFields>>

\* The session, the dispatch and the publish operations, with no schema
\* registered.
Next ==
  \/ \E clientId \in ClientIds : setMqttClientId(clientId)
  \/ \E config \in BOOLEAN, command \in BOOLEAN, wifi \in BOOLEAN :
       begin(config, command, wifi) /\ UNCHANGED preBegin
  \/ \E io \in PumpInputs, stale \in StaleWrites, req \in ApiRequests :
       loop(io, stale, req, NoAct, FALSE)
  \/ \E json \in StatusJsons, ok \in BOOLEAN : publishStatus(json, ok)
  \/ \E json \in StatusJsons, ok \in BOOLEAN : publishTelemetry(json, ok)
  \/ LinkChange
  \/ Reboot

Spec == Init /\ [][Next]_vars

\* The schema mutators and the adoption documents built over the surface and
\* on connect, with both handlers registered and no inbound message.
SchemaPumpInputs == {[k |-> "connectOk"], [k |-> "idle"], [k |-> "lost", state |-> "MQTT_CONNECTION_LOST"]}

SchemaInit ==
  /\ mac = CHOOSE m \in Macs : TRUE
  /\ persistedId = <<>>
  /\ persistedFields = {}
  /\ Boot
  /\ MergeIdle

SchemaNext ==
  \/ \E json \in SchemaFragments : setConfigSchema(json)
  \/ \E json \in SchemaFragments : setCommandSchema(json)
  \/ begin(TRUE, TRUE, TRUE) /\ UNCHANGED preBegin
  \/ \E io \in SchemaPumpInputs, stale \in StaleWrites, req \in ApiRequests :
       loop(io, stale, req, NoAct, FALSE)

SchemaSpec == SchemaInit /\ [][SchemaNext]_vars

\* The session fields firmware sets before begin, the persisted configuration
\* begin loads, and the connect attempts that follow.
FieldValues == {"fw"}
ConfigPumpInputs ==
  {[k |-> "connectOk"], [k |-> "idle"],
   [k |-> "connectFail", state |-> "MQTT_CONNECT_FAILED"],
   [k |-> "lost", state |-> "MQTT_CONNECTION_LOST"]}

ConfigInit ==
  /\ mac = CHOOSE m \in Macs : TRUE
  /\ persistedId \in PersistedIds
  /\ persistedFields \in SUBSET {"broker", "auth", "prefix", "suffix"}
  /\ Boot
  /\ MergeIdle

ConfigNext ==
  \/ \E clientId \in ClientIds : phase = "setup" /\ setMqttClientId(clientId)
  \/ \E v \in FieldValues : phase = "setup" /\ setMqttBroker(v)
  \/ \E v \in FieldValues : phase = "setup" /\ setMqttAuth(v)
  \/ \E v \in FieldValues : phase = "setup" /\ setMqttTopicPrefix(v)
  \/ \E v \in FieldValues : phase = "setup" /\ setMqttTopicSuffix(v)
  \/ \E wifi \in BOOLEAN : begin(TRUE, TRUE, wifi) /\ preBegin' = SessionFields
  \/ \E io \in ConfigPumpInputs : loop(io, "kept", "none", NoAct, FALSE)
  \/ LinkChange

ConfigSpec == ConfigInit /\ [][ConfigNext]_vars

\* The cycles of loop with a link that may go down inside a cycle and
\* handlers that publish.
CycleMessages ==
  {[topic |-> t, payload |-> p] :
     t \in {"conf", "cmnd"},
     p \in {[raw |-> "empty"], [raw |-> "json", json |-> Obj1("dim", JNum(50))],
            [raw |-> "json", json |-> Obj1("restart", JBool(TRUE))]}}
CyclePumpInputs ==
  {[k |-> "connectOk"], [k |-> "idle"],
   [k |-> "connectFail", state |-> "MQTT_CONNECT_FAILED"],
   [k |-> "lost", state |-> "MQTT_CONNECTION_LOST"]}
    \cup {[k |-> "message", msg |-> x] : x \in CycleMessages}

CycleInit ==
  /\ mac = CHOOSE m \in Macs : TRUE
  /\ persistedId = <<>>
  /\ persistedFields = {}
  /\ Boot
  /\ MergeIdle

CycleNext ==
  \/ \E config \in BOOLEAN, command \in BOOLEAN :
       begin(config, command, TRUE) /\ UNCHANGED preBegin
  \/ \E io \in CyclePumpInputs, req \in ApiRequests, fw \in HandlerActs,
        drop \in BOOLEAN :
       loop(io, "kept", req, fw, drop)
  \/ LinkChange
  \/ Reboot

CycleSpec == CycleInit /\ [][CycleNext]_vars

\* The merge on its own: a target and a fragment, merged once and again.
MergeInit ==
  /\ mac = CHOOSE m \in Macs : TRUE
  /\ persistedId = <<>>
  /\ persistedFields = {}
  /\ Boot
  /\ mT \in MergeTargets
  /\ mF \in MergeFragments
  /\ mR1 = JNull
  /\ mR2 = JNull
  /\ mStage = "start"

\* _mergeJson(T, F) on a target holding T.
MergeOnce ==
  /\ mStage = "start"
  /\ mR1' = _mergeJson(mT, mF)
  /\ mStage' = "merged"
  /\ UNCHANGED <<mT, mF, mR2, sysVars>>

\* _mergeJson(., F) again on the target the first call left.
MergeAgain ==
  /\ mStage = "merged"
  /\ mR2' = _mergeJson(mR1, mF)
  /\ mStage' = "again"
  /\ UNCHANGED <<mT, mF, mR1, sysVars>>

MergeNext == MergeOnce \/ MergeAgain

MergeSpec == MergeInit /\ [][MergeNext]_vars

(***************************************************************************)
(* Properties of the merge.                                                *)
(***************************************************************************)
EmptyTarget(v) == v = JNull \/ v = EmptyObj

\* C7: merge is idempotent: merging an object fragment F into an empty
\* target and then merging F again leaves the document the first merge made.
MergeIdempotent ==
  (mStage = "again" /\ IsObject(mF) /\ EmptyTarget(mT)) => mR2 = mR1

\* F with a nested object, a falsy leaf and a deeper object was merged twice
\* into a cleared document.
MergeIdempotentWitness ==
  /\ mStage = "again"
  /\ mT = JNull
  /\ mF = Obj2("a", Obj2("x", JNum(0), "y", Obj1("z", JNum(1))), "b", JNum(1))
  /\ mR1 = mF
  /\ mR2 = mF

\* R is the right-biased deep merge of the object fragment F into T: a key
\* of T that F lacks keeps T's value, a key of F with a scalar or an array
\* holds F's value, a key of F with an object holds the deep merge of T's
\* value and F's value.
RECURSIVE DeepMerged(_, _, _)
DeepMerged(R, T, F) ==
  /\ KeysOf(R) = KeysOf(T) \cup KeysOf(F)
  /\ \A k \in KeysOf(R) :
        IF k \notin KeysOf(F) THEN R.m[k] = T.m[k]
        ELSE IF ~IsObject(F.m[k]) THEN R.m[k] = F.m[k]
        ELSE DeepMerged(R.m[k], Member(T, k), F.m[k])

\* Every leaf of F is at its path in R.
RECURSIVE LeavesPresent(_, _)
LeavesPresent(R, F) ==
  \A k \in KeysOf(F) :
    IF IsObject(F.m[k]) THEN LeavesPresent(Member(R, k), F.m[k])
    ELSE k \in KeysOf(R) /\ R.m[k] = F.m[k]

\* A value that is no object and converts to true: a non-zero number, true,
\* a string or an array.
TruthyNonObject(v) ==
  \/ v.t \in {"str", "arr"}
  \/ v.t = "bool" /\ v.b
  \/ v.t = "num" /\ v.n # 0

\* At no path does F hold an object where T holds a truthy non-object.
RECURSIVE NoTypeConflict(_, _)
NoTypeConflict(T, F) ==
  \A k \in KeysOf(F) \cap KeysOf(T) :
    IsObject(F.m[k]) =>
      /\ ~TruthyNonObject(T.m[k])
      /\ NoTypeConflict(T.m[k], F.m[k])

\* C8 as stated: for every target T and object fragment F the result of
\* merge(T, F) is the right-biased deep merge, with every leaf of F in it.
MergeRightBiasedAnyTarget ==
  (mStage = "merged" /\ IsObject(mF)) =>
    DeepMerged(mR1, mT, mF) /\ LeavesPresent(mR1, mF)

\* C8 amended: the same, for every T and F such that at no path F holds an
\* object where T holds a truthy non-object value.
MergeRightBiased ==
  (mStage = "merged" /\ IsObject(mF) /\ NoTypeConflict(mT, mF)) =>
    DeepMerged(mR1, mT, mF) /\ LeavesPresent(mR1, mF)

\* {"a":{"x":1}} was merged into {"a":{"y":2},"b":1}: "a" holds both leaves
\* and "b" is kept.
MergeRightBiasedWitness ==
  /\ mStage = "merged"
  /\ mT = Obj2("a", Obj1("y", JNum(2)), "b", JNum(1))
  /\ mF = Obj1("a", Obj1("x", JNum(1)))
  /\ mR1 = Obj2("a", Obj2("x", JNum(1), "y", JNum(2)), "b", JNum(1))

(***************************************************************************)
(* Properties of the program.                                              *)
(***************************************************************************)
EventsOf(kind) == {i \in DOMAIN trace : trace[i].ev = kind}
Logged(line) == \E i \in DOMAIN trace : trace[i] = Log(line)
AdoptBuilds == EventsOf("publishAdopt") \cup EventsOf("apiAdopt")

\* C1: after any sequence of setConfigSchema calls the configuration schema
\* document equals merge(empty, F) for the fragment F of the latest call, and
\* holds no key F lacks; the same for setCommandSchema.
SchemaReplaced ==
  /\ lastConfigFragment.set =>
       /\ fwConfigSchema = _mergeJson(JNull, lastConfigFragment.f)
       /\ KeysOf(fwConfigSchema) = KeysOf(lastConfigFragment.f)
  /\ lastCommandFragment.set =>
       /\ fwCommandSchema = _mergeJson(JNull, lastCommandFragment.f)
       /\ KeysOf(fwCommandSchema) = KeysOf(lastCommandFragment.f)

\* setConfigSchema({"b":2}) and setCommandSchema({"a":{"y":2}}) each came
\* after a call whose fragment had a key the new one lacks.
SchemaReplacedWitness ==
  /\ lastConfigFragment = [set |-> TRUE, f |-> Obj1("b", JNum(2)), dropped |-> TRUE]
  /\ fwConfigSchema = Obj1("b", JNum(2))
  /\ lastCommandFragment =
       [set |-> TRUE, f |-> Obj1("a", Obj1("y", JNum(2))), dropped |-> TRUE]
  /\ fwCommandSchema = Obj1("a", Obj1("y", JNum(2)))

CommandProperties(doc) == doc.m["commandSchema"].m["properties"]

\* C2: whatever the firmware command schema is, the commandSchema.properties
\* of every adoption document built has a restart entry equal to
\* {title: "Restart", type: "boolean"}.
AdoptHasRestart ==
  \A i \in AdoptBuilds :
    /\ "restart" \in KeysOf(CommandProperties(trace[i].doc))
    /\ CommandProperties(trace[i].doc).m["restart"] = RestartSchema

\* The payload a message event carries, when it is JSON.
IsJsonMessage(e) == e.ev = "message" /\ e.msg.payload.raw = "json"
RestartTrue(json) == "restart" \in KeysOf(json) /\ json.m["restart"] = JBool(TRUE)
RestartAbsentOrFalse(json) ==
  "restart" \notin KeysOf(json) \/ json.m["restart"] = JBool(FALSE)

\* C3: when a command payload with restart true is dispatched the device is
\* reset, and the firmware command handler is not invoked ahead of the reset.
RestartBeforeHandler ==
  \A i \in EventsOf("mqttCommand") :
    RestartTrue(trace[i].json) =>
      /\ phase = "halted"
      /\ \E j \in EventsOf("restart") :
           /\ j > i
           /\ \A k \in EventsOf("onCommand") : k > j

\* {"restart": true, "dim": 50} was dispatched with a command handler
\* registered, and the device was reset.
RestartBeforeHandlerWitness ==
  /\ lastOp = "loop"
  /\ onCommand
  /\ phase = "halted"
  /\ \E i \in EventsOf("mqttCommand") :
       trace[i].json = Obj2("restart", JBool(TRUE), "dim", JNum(50))
  /\ EventsOf("restart") # {}

\* C4: a command payload whose restart key is absent or false never resets
\* the device, and the registered firmware command handler is invoked exactly
\* once, with the whole payload as it arrived.
NoRestartForwardsAll ==
  \A i \in DOMAIN trace :
    (/\ IsJsonMessage(trace[i])
     /\ trace[i].msg.topic = "cmnd"
     /\ RestartAbsentOrFalse(trace[i].msg.payload.json)) =>
      /\ EventsOf("restart") = {}
      /\ phase # "halted"
      /\ onCommand =>
           /\ Cardinality(EventsOf("onCommand")) = 1
           /\ \A k \in EventsOf("onCommand") :
                k > i /\ trace[k].json = trace[i].msg.payload.json

\* {"restart": false, "dim": 50} arrived on the command topic with a handler
\* registered and was forwarded.
NoRestartForwardsAllWitness ==
  /\ lastOp = "loop"
  /\ onCommand
  /\ \E i \in EventsOf("message") :
       /\ trace[i].msg.topic = "cmnd"
       /\ trace[i].msg.payload =
            [raw |-> "json", json |-> Obj2("restart", JBool(FALSE), "dim", JNum(50))]
  /\ \E k \in EventsOf("onCommand") :
       trace[k].json = Obj2("restart", JBool(FALSE), "dim", JNum(50))

\* C5: while the link is down publishStatus and publishTelemetry return false
\* and make no publish call on the session; while it is up they make one and
\* return what it returned.
PublishShortCircuit ==
  lastOp \in {"publishStatus", "publishTelemetry"} =>
    /\ Cardinality(EventsOf("return")) = 1
    /\ IF netUp
       THEN /\ Cardinality(EventsOf("mqttPublish")) = 1
            /\ \A i \in EventsOf("mqttPublish"), j \in EventsOf("return") :
                 /\ i < j
                 /\ trace[j].val = trace[i].ok
                 /\ trace[i].kind = (IF lastOp = "publishStatus" THEN "stat" ELSE "tele")
       ELSE /\ EventsOf("mqttPublish") = {}
            /\ \A j \in EventsOf("return") : trace[j].val = FALSE

\* publishStatus was called with the link down and session connected, and
\* publishTelemetry cases with the link up are reached the same way.
PublishShortCircuitWitness ==
  /\ lastOp = "publishStatus"
  /\ ~netUp
  /\ conn = "Connected"
  /\ EventsOf("mqttPublish") = {}
  /\ \E j \in EventsOf("return") : trace[j].val = FALSE

\* The session published and reported success with the link up.
PublishDelegatesWitness ==
  /\ lastOp = "publishTelemetry"
  /\ netUp
  /\ \E i \in EventsOf("mqttPublish") : trace[i].ok
  /\ \E j \in EventsOf("return") : trace[j].val

\* The client id the persisted configuration or, without one, the identity
\* gives.
ExpectedClientId == IF persistedId # <<>> THEN persistedId ELSE DefaultClientId(mac)

\* In begin the default client id is set before the persisted configuration
\* is loaded, and no connect attempt is made; begin leaves the persisted
\* client id when there is one and the default otherwise.
BeginPrecedence ==
  lastOp = "begin" =>
    /\ EventsOf("connect") = {}
    /\ ~connectTried
    /\ \E i \in EventsOf("setClientId"), j \in EventsOf("loadPersisted") :
         /\ trace[i].by = "default"
         /\ trace[i].id = DefaultClientId(mac)
         /\ i < j
    /\ mqttClientId = ExpectedClientId

\* C6 as stated: the first connect attempt uses the persisted client id when
\* there is one and the identity-derived default otherwise.
FirstConnectUsesPrecedence ==
  /\ BeginPrecedence
  /\ \A i \in EventsOf("connect") : trace[i].first => trace[i].id = ExpectedClientId

\* C6 amended: the same, unless firmware called setMqttClientId between begin
\* and that first connect attempt.
FirstConnectUsesPrecedenceUnlessSet ==
  /\ BeginPrecedence
  /\ \A i \in EventsOf("connect") :
       (trace[i].first /\ ~trace[i].fwSet) => trace[i].id = ExpectedClientId

\* The first connect attempt was made with the persisted client id.
FirstConnectWitness ==
  /\ lastOp = "loop"
  /\ persistedId = <<"c", "f", "g">>
  /\ \E i \in EventsOf("connect") :
       trace[i].first /\ ~trace[i].fwSet /\ trace[i].id = <<"c", "f", "g">>

HandlerEvents ==
  EventsOf("onConfig") \cup EventsOf("onCommand")
    \cup EventsOf("mqttConfig") \cup EventsOf("mqttCommand")

\* C9: a zero-length payload is reported as empty-payload, its line is
\* logged and no handler runs; a payload that is not JSON is reported as
\* json-error, its line is logged and no handler runs.
MalformedRejected ==
  \A i \in EventsOf("message") :
    /\ trace[i].msg.payload.raw = "empty" =>
         /\ \E j \in EventsOf("received") : trace[j].state = "MQTT_RECEIVE_ZERO_LENGTH"
         /\ \A j \in EventsOf("received") : trace[j].state # "MQTT_RECEIVE_JSON_ERROR"
         /\ Logged("[gp32] empty mqtt payload received")
         /\ ~Logged("[gp32] failed to deserialise mqtt json payload")
         /\ HandlerEvents = {}
    /\ trace[i].msg.payload.raw = "garbage" =>
         /\ \E j \in EventsOf("received") : trace[j].state = "MQTT_RECEIVE_JSON_ERROR"
         /\ Logged("[gp32] failed to deserialise mqtt json payload")
         /\ ~Logged("[gp32] empty mqtt payload received")
         /\ HandlerEvents = {}

\* A zero-length payload arrived on the configuration topic with a
\* configuration handler registered.
MalformedRejectedWitness ==
  /\ lastOp = "loop"
  /\ onConfig
  /\ \E i \in EventsOf("message") :
       trace[i].msg = [topic |-> "conf", payload |-> [raw |-> "empty"]]
  /\ Logged("[gp32] empty mqtt payload received")

\* C10: a well-formed message of the configuration (command) namespace, when
\* firmware registered no configuration (command) handler in begin, is
\* reported as no-config-handler (no-command-handler) and its own line is
\* logged.
MissingHandlerReported ==
  \A i \in DOMAIN trace :
    (IsJsonMessage(trace[i]) /\ phase # "halted") =>
      /\ (trace[i].msg.topic = "conf" /\ ~onConfig) =>
           /\ \E j \in EventsOf("received") :
                trace[j].state = "MQTT_RECEIVE_NO_CONFIG_HANDLER"
           /\ Logged("[gp32] no mqtt config handler")
      /\ (trace[i].msg.topic = "cmnd" /\ ~onCommand) =>
           /\ \E j \in EventsOf("received") :
                trace[j].state = "MQTT_RECEIVE_NO_COMMAND_HANDLER"
           /\ Logged("[gp32] no mqtt command handler")

\* At the first connect attempt the client id firmware set before begin is
\* the session's, unless the persisted configuration holds one.
FirmwareClientIdKept ==
  \A i \in EventsOf("connect") :
    (trace[i].first /\ ~trace[i].fwSet /\ preBegin.called) =>
      ((preBegin.clientId # <<>> /\ persistedId = <<>>) =>
         trace[i].id = preBegin.clientId)

\* At the first connect attempt the broker, credentials, topic prefix and
\* topic suffix firmware set before begin are the session's, unless the
\* persisted configuration holds that field.
FirmwareOtherFieldsKept ==
  \A i \in EventsOf("connect") :
    (trace[i].first /\ preBegin.called) =>
      /\ (preBegin.broker # "" /\ "broker" \notin persistedFields) =>
           trace[i].broker = preBegin.broker
      /\ (preBegin.auth # "" /\ "auth" \notin persistedFields) =>
           trace[i].auth = preBegin.auth
      /\ (preBegin.prefix # "" /\ "prefix" \notin persistedFields) =>
           trace[i].prefix = preBegin.prefix
      /\ (preBegin.suffix # "" /\ "suffix" \notin persistedFields) =>
           trace[i].suffix = preBegin.suffix

\* C11: every session field firmware set before begin (broker, client id,
\* credentials, topic prefix, topic suffix) holds firmware's value at the
\* first connect attempt unless the persisted configuration holds that field;
\* a client id set before begin is not replaced by the default.
FirmwareFieldsKept ==
  /\ FirmwareClientIdKept
  /\ FirmwareOtherFieldsKept

\* The first connect attempt was made with the default client id although
\* firmware had set one before begin and none was persisted.
FirmwareClientIdLost ==
  /\ lastOp = "loop"
  /\ preBegin.called /\ preBegin.clientId = <<"f", "w">> /\ persistedId = <<>>
  /\ \E i \in EventsOf("connect") :
       trace[i].first /\ trace[i].id = DefaultClientId(mac)

\* C12: in every state after begin has returned, whatever setMqttClientId
\* calls and loop cycles followed, the session's client id is not empty.
ClientIdNonEmpty ==
  phase \in {"running", "halted"} => mqttClientId # <<>>

\* A connect attempt of this cycle succeeded.
ConnectedNow == lastOp = "loop" /\ EventsOf("connect") # {} /\ conn = "Connected"

\* C13: whenever the session becomes connected the on-connected callback
\* rebinds the log sink to the session's log topic, then publishes exactly one
\* adoption document, then logs "mqtt connected"; an adoption document is
\* published at no other time.
AdoptOncePerConnect ==
  /\ ConnectedNow =>
       /\ Cardinality(EventsOf("setTopic")) = 1
       /\ Cardinality(EventsOf("publishAdopt")) = 1
       /\ loggerTopic = "logTopic"
       /\ \E c \in EventsOf("connect"), i \in EventsOf("setTopic"),
             j \in EventsOf("publishAdopt"), k \in DOMAIN trace :
            /\ c < i /\ i < j /\ j < k
            /\ trace[i].topic = "logTopic"
            /\ trace[k] = Log("[gp32] mqtt connected")
  /\ ~ConnectedNow => EventsOf("publishAdopt") = {}

\* The session connected and the adoption document went out.
AdoptOncePerConnectWitness ==
  /\ ConnectedNow
  /\ \E j \in EventsOf("publishAdopt") : IsObject(trace[j].doc)
  /\ Logged("[gp32] mqtt connected")

\* C16: a payload of the configuration namespace, also one whose restart key
\* is true, never resets the device; the registered firmware configuration
\* handler is called exactly once with the whole payload, and nothing is
\* called when none is registered.
ConfigForwardsAll ==
  \A i \in DOMAIN trace :
    (IsJsonMessage(trace[i]) /\ trace[i].msg.topic = "conf") =>
      /\ EventsOf("restart") = {}
      /\ phase # "halted"
      /\ EventsOf("onCommand") = {}
      /\ IF onConfig
         THEN /\ Cardinality(EventsOf("onConfig")) = 1
              /\ \A k \in EventsOf("onConfig") :
                   k > i /\ trace[k].json = trace[i].msg.payload.json
         ELSE EventsOf("onConfig") = {}

\* {"restart": true} arrived on the configuration topic with a handler
\* registered and was handed to it, and the device runs on.
ConfigForwardsAllWitness ==
  /\ lastOp = "loop"
  /\ onConfig
  /\ phase = "running"
  /\ \E i \in EventsOf("message") :
       trace[i].msg = [topic |-> "conf",
                       payload |-> [raw |-> "json", json |-> Obj1("restart", JBool(TRUE))]]
  /\ \E k \in EventsOf("onConfig") : trace[k].json = Obj1("restart", JBool(TRUE))

LinkReads == EventsOf("isNetworkConnected")
\* The latest read of the link status before event j.
ReadBefore(j) == CHOOSE i \in LinkReads : i < j /\ \A k \in LinkReads : k < j => k <= i

\* What one cycle of loop does, by the link status it read first.
CycleShape ==
  lastOp = "loop" =>
    /\ trace[1].ev = "isNetworkConnected"
    /\ IF ~trace[1].val
       THEN Len(trace) = 1
       ELSE /\ Cardinality(EventsOf("mqttLoop")) = 1
            /\ Cardinality(EventsOf("serverAvailable")) <= 1
            /\ Cardinality(EventsOf("apiLoop")) = Cardinality(EventsOf("serverAvailable"))
            /\ \A m \in EventsOf("mqttLoop") :
                 /\ m = 2
                 /\ \A a \in EventsOf("serverAvailable"), l \in EventsOf("apiLoop") :
                      /\ m < a /\ a < l
                      /\ \A h \in HandlerEvents \cup EventsOf("connect")
                                  \cup EventsOf("message") \cup EventsOf("log") :
                           m < h /\ h < a

\* A cycle of loop that starts with the link down leaves the session
\* configuration, the session, the schema documents and the handlers alone.
CycleFrame ==
  [][(lastOp' = "loop" /\ ~netUp) =>
       UNCHANGED <<mqttClientId, fieldVars, conn, loggerTopic, fwConfigSchema,
                   fwCommandSchema, handlerVars, phase>>]_vars

\* C14: in every cycle of loop, with the link down at its start the session
\* is not pumped, no surface connection is accepted, no handler or callback
\* runs and the session configuration, schema documents and handlers are
\* unchanged; with the link up the session is pumped exactly once and then at
\* most one surface connection is accepted and served, in that order.
LoopCycle == []CycleShape /\ CycleFrame

\* A cycle ran with the link down while the session was connected and both
\* handlers were registered, and did nothing.
LoopCycleWitness ==
  /\ lastOp = "loop"
  /\ ~trace[1].val
  /\ conn = "Connected"
  /\ onConfig /\ onCommand

PumpsUseOneRead ==
  lastOp = "loop" =>
    /\ trace[1].ev = "isNetworkConnected"
    /\ (EventsOf("mqttLoop") # {}) = trace[1].val
    /\ (EventsOf("apiLoop") # {}) = (trace[1].val /\ phase # "halted")

\* C18 as claimed: in one cycle of loop the link status is read exactly once,
\* and the session pump, the surface pump and every publishStatus or
\* publishTelemetry a handler issues inside the cycle use that value.
CycleReadsLinkOnce ==
  lastOp = "loop" =>
    /\ PumpsUseOneRead
    /\ Cardinality(LinkReads) = 1
    /\ \A j \in EventsOf("return") :
         trace[1].val => \E i \in EventsOf("mqttPublish") : i < j

\* C18 amended: in one cycle loop itself reads the link status exactly once
\* and the session pump and the surface pump use that value; a publishStatus
\* or publishTelemetry a handler issues inside the cycle reads the link status
\* again, and publishes only if that later read says up.
CycleReadsLinkOncePerCall ==
  lastOp = "loop" =>
    /\ PumpsUseOneRead
    /\ Cardinality(LinkReads) = 1 + Cardinality(EventsOf("return"))
    /\ \A j \in EventsOf("return") :
         /\ ReadBefore(j) > 1
         /\ trace[ReadBefore(j)].val = netUp
         /\ IF trace[ReadBefore(j)].val
            THEN /\ j = ReadBefore(j) + 2
                 /\ trace[j - 1].ev = "mqttPublish"
                 /\ trace[j].val = trace[j - 1].ok
            ELSE /\ j = ReadBefore(j) + 1
                 /\ trace[j].val = FALSE
    /\ \A i \in EventsOf("mqttPublish") : trace[ReadBefore(i)].val /\ ReadBefore(i) = i - 1

\* The link went down inside a cycle: loop had read it as up and served the
\* surface, and the handler's publish read it as down and returned false.
CycleReadsLinkWitness ==
  /\ lastOp = "loop"
  /\ trace[1].val
  /\ ~netUp
  /\ EventsOf("apiLoop") # {}
  /\ EventsOf("mqttPublish") = {}
  /\ \E h \in EventsOf("onCommand"), j \in EventsOf("return") :
       h < j /\ ~trace[j].val /\ ~trace[ReadBefore(j)].val

IsBuild(e) == e.ev \in {"publishAdopt", "apiAdopt"}
SchemaSections(doc) == <<doc.m["configSchema"], doc.m["commandSchema"]>>

\* C17: building the adoption document reads the shared state only: a cycle
\* of loop, whatever it builds, leaves the schema documents, the session
\* configuration and the handlers unchanged, and two builds with no
\* setConfigSchema or setCommandSchema between them have the same
\* configSchema and commandSchema sections.
BuildsReadOnly ==
  [][(lastOp' = "loop") =>
       /\ UNCHANGED <<fwConfigSchema, fwCommandSchema, handlerVars, mqttClientId,
                      fieldVars>>
       /\ (lastOp = "loop") =>
            \A i \in DOMAIN trace, j \in DOMAIN trace' :
              (IsBuild(trace[i]) /\ IsBuild(trace'[j])) =>
                SchemaSections(trace[i].doc) = SchemaSections(trace'[j].doc)]_vars

\* The fragment a section is built from is an object, or none was registered.
ObjectOrNone(frag) == ~frag.set \/ IsObject(frag.f)
FragmentObject(frag) == IF frag.set THEN frag.f ELSE EmptyObj
HasEnvelope(section) ==
  /\ KeysOf(section) = {"$schema", "title", "type", "properties"}
  /\ section.m["type"] = JStr("object")

\* C19: every adoption document built shows the schemas as they are at that
\* time: with object fragments Fc and Fm the latest registered,
\* configSchema.properties is Fc and commandSchema.properties is Fm with the
\* built-in restart entry; each section has $schema, title and type object;
\* with no fragment registered the properties are empty, or restart alone.
AdoptReflectsSchema ==
  \A i \in AdoptBuilds :
    LET cfg == trace[i].doc.m["configSchema"]
        cmd == trace[i].doc.m["commandSchema"]
    IN /\ HasEnvelope(cfg)
       /\ HasEnvelope(cmd)
       /\ ObjectOrNone(lastConfigFragment) =>
            cfg.m["properties"] = FragmentObject(lastConfigFragment)
       /\ ObjectOrNone(lastCommandFragment) =>
            cmd.m["properties"] =
              SetMember(FragmentObject(lastCommandFragment), "restart", RestartSchema)

\* A document was built after firmware registered a configuration fragment
\* and a command fragment with a restart entry of its own.
AdoptReflectsSchemaWitness ==
  /\ lastOp = "loop"
  /\ lastConfigFragment = [set |-> TRUE, f |-> Obj1("a", Obj1("x", JNum(1))), dropped |-> TRUE]
  /\ lastCommandFragment.set
  /\ lastCommandFragment.f
       = Obj1("restart", Obj2("title", JStr("Mine"), "type", JStr("string")))
  /\ \E i \in AdoptBuilds :
       /\ trace[i].doc.m["configSchema"].m["properties"] = Obj1("a", Obj1("x", JNum(1)))
       /\ CommandProperties(trace[i].doc) = Obj1("restart", RestartSchema)

====
